---- MODULE Spec2Model ----
(***************************************************************************)
(* Equal Opportunity dual-account grid bot (src/octopus.py).               *)
(*                                                                         *)
(* Units.  Prices are whole dollars.  tick_size is held as a count of      *)
(* half dollars (the default 0.5 is 1).  Quantities are integers in units  *)
(* of 0.0001 contracts; qty_step and min_qty are held in the same unit     *)
(* (the default 0.0001 is 1).  Equity is whole dollars.  Arithmetic that   *)
(* the program does in binary floating point is done here exactly, on      *)
(* rationals num/den.                                                      *)
(***************************************************************************)
EXTENDS Integers, Sequences, FiniteSets, TLC

VARIABLES
    state,        \* self.state: account -> saved OrderRecord list
    tick_size,    \* self.tick_size, in half dollars
    qty_step,     \* self.qty_step, in quantity units
    min_qty,      \* self.min_qty, in quantity units
    book,         \* exchange: account -> set of resting orders
    position,     \* exchange: account -> open position size
    eq_long,      \* run: equity read for LONG in the current tick
    eq_short,     \* run: equity read for SHORT in the current tick
    min_equity,   \* run: basis equity of the current tick
    pc,           \* run: "top", "check" or "rebuild"
    cur,          \* run: index into Names of the account being reconciled
    faults,       \* number of exchange faults and outside changes so far
    first_tick,   \* history: TRUE until the second tick starts
    state_file,   \* contents of STATE_FILE
    size_check,   \* check_integrity, lines 284-285: live_size,
                  \*   target_stop_size and the outcome of their comparison
    sizing,       \* place_grid, lines 201-212: two pairs of equities, a
                  \*   level and the quantity computed from each pair
    last_check,   \* history: account -> last check_integrity call
    last_grid,    \* history: account -> last place_grid call
    last_tick,    \* history: account -> what the latest tick did to it
    touched       \* history: account -> its book or position was changed
                  \*   from outside since its last check_integrity call

vars == <<state, tick_size, qty_step, min_qty, book, position, eq_long,
          eq_short, min_equity, pc, cur, faults, first_tick,
          state_file, size_check, sizing, last_check, last_grid,
          last_tick, touched>>

----------------------------------------------------------------------------
(* Bounds of the model *)

MaxFaults == 1

(* Values the exchange can report *)
EquityValues == {8000, 10000}
PosValues == {0, 108}
\* Instrument specs after fetch_specs: the defaults (tick 0.5, step 0.0001),
\* or fetched ones (tick 7.0, contractValueTradePrecision 3: step 0.001).
Specs == {[tick_size |-> 1, qty_step |-> 1], [tick_size |-> 14, qty_step |-> 10]}

----------------------------------------------------------------------------
(* Configuration *)

KEYS ==
    [LONG  |-> [levels |-> <<60000, 61000, 62000, 63000, 64000>>,
                stop |-> 59000, side |-> "buy", stop_side |-> "sell"],
     SHORT |-> [levels |-> <<66000, 67000, 68000, 69000, 70000>>,
                stop |-> 71000, side |-> "sell", stop_side |-> "buy"]]

Names == <<"LONG", "SHORT">>
Accounts == {Names[i] : i \in 1..Len(Names)}

Config(name) == KEYS[name]

----------------------------------------------------------------------------
(* Arithmetic helpers *)

Abs(x) == IF x < 0 THEN -x ELSE x

Max(x, y) == IF x >= y THEN x ELSE y

Min(x, y) == IF x <= y THEN x ELSE y

\* Python round(num/den) for num >= 0, den > 0: nearest integer, ties to even.
Round(num, den) ==
    LET q == num \div den
        r == num % den
    IN  IF 2 * r < den THEN q
        ELSE IF 2 * r > den THEN q + 1
        ELSE IF q % 2 = 0 THEN q ELSE q + 1

\* round_price(price): steps = round(price / tick_size); steps * tick_size.
\* tick_size is in half dollars, so price / tick_size = 2 * price / tick_size.
round_price(price) ==
    (Round(2 * price, tick_size) * tick_size) \div 2

\* round_qty(num / den), the argument being in quantity units:
\* steps = round(qty / qty_step); max(steps * qty_step, min_qty).
round_qty(num, den) ==
    Max(Round(num, den * qty_step) * qty_step, min_qty)

\* sorted(levels, reverse=...): insertion of each element into a sorted prefix.
RECURSIVE Insert(_, _)
Insert(x, s) ==
    IF s = <<>> THEN <<x>>
    ELSE IF x <= Head(s) THEN <<x>> \o s
    ELSE <<Head(s)>> \o Insert(x, Tail(s))

RECURSIVE SortAsc(_)
SortAsc(s) ==
    IF s = <<>> THEN <<>> ELSE Insert(Head(s), SortAsc(Tail(s)))

Reverse(s) == [i \in 1..Len(s) |-> s[Len(s) + 1 - i]]

sorted(s, reverse) == IF reverse THEN Reverse(SortAsc(s)) ELSE SortAsc(s)

----------------------------------------------------------------------------
(* place_grid: the target grid *)

\* Quantity units per contract: quantities are counted in units of 0.0001.
UnitsPerContract == 10000

\* ideal_qty = round_qty(base_value_per_level / price), with
\* base_value_per_level = base_equity / 10.0 dollars; in quantity units the
\* argument is base_equity * UnitsPerContract / (10 * price).
ideal_qty(base_equity, price) ==
    round_qty(base_equity * UnitsPerContract, 10 * price)

\* The rung is treated as filled only when the tracker covers all of it.
covered_full(filled_qty_tracker, qty) ==
    filled_qty_tracker >= qty

\* The rung is treated as filled: filled_qty_tracker >= ideal_qty * 0.9.
covered(filled_qty_tracker, qty) ==
    10 * filled_qty_tracker >= 9 * qty

limit_payload(config, price, qty) ==
    [orderType |-> "lmt", side |-> config.side, size |-> qty,
     price |-> price, reduceOnly |-> FALSE, meta_type |-> "limit"]

\* stop_payload without the reduce-only flag.
stop_payload_open(config, stop_price, total_risk_size) ==
    [orderType |-> "stp", side |-> config.stop_side, size |-> total_risk_size,
     price |-> stop_price, reduceOnly |-> FALSE, meta_type |-> "stop"]

stop_payload(config, stop_price, total_risk_size) ==
    [orderType |-> "stp", side |-> config.stop_side, size |-> total_risk_size,
     price |-> stop_price, reduceOnly |-> TRUE, meta_type |-> "stop"]

\* The loop over the sorted levels; acc carries limit_payloads,
\* pending_limit_size and filled_qty_tracker.
RECURSIVE grid_loop(_, _, _, _)
grid_loop(config, base_equity, levels, acc) ==
    IF levels = <<>> THEN acc
    ELSE
        LET price == round_price(Head(levels))
            qty == ideal_qty(base_equity, price)
        IN  IF covered(acc.filled_qty_tracker, qty)
            THEN grid_loop(config, base_equity, Tail(levels),
                     [acc EXCEPT !.filled_qty_tracker = @ - qty])
            ELSE grid_loop(config, base_equity, Tail(levels),
                     [acc EXCEPT
                         !.limit_payloads =
                             Append(@, limit_payload(config, price, qty)),
                         !.pending_limit_size = @ + qty])

\* orders_to_send with a stop that covers the pending limits only.
orders_to_send_pending_only(config, base_equity, current_pos) ==
    LET levels == sorted(config.levels, config.side = "buy")
        acc == grid_loop(config, base_equity, levels,
                   [limit_payloads |-> <<>>, pending_limit_size |-> 0,
                    filled_qty_tracker |-> current_pos])
    IN  Append(acc.limit_payloads,
               stop_payload(config, round_price(config.stop),
                            round_qty(acc.pending_limit_size, 1)))

\* orders_to_send of place_grid(name, client, config, base_equity), for
\* base_equity > 0 and current_pos as read by get_position.
orders_to_send(config, base_equity, current_pos) ==
    LET levels == sorted(config.levels, config.side = "buy")
        acc == grid_loop(config, base_equity, levels,
                   [limit_payloads |-> <<>>, pending_limit_size |-> 0,
                    filled_qty_tracker |-> current_pos])
        stop_price == round_price(config.stop)
        total_risk_size == round_qty(current_pos + acc.pending_limit_size, 1)
    IN  Append(acc.limit_payloads,
               stop_payload(config, stop_price, total_risk_size))

----------------------------------------------------------------------------
(* check_integrity *)

\* size_drift with the deviation taken relative to the target.
size_drift_of_target(live_size, target_stop_size) ==
    20 * Abs(live_size - target_stop_size) > target_stop_size

\* abs(live_size - target_stop_size) / live_size > SIZE_TOLERANCE, 0.05 = 1/20.
size_drift(live_size, target_stop_size) ==
    20 * Abs(live_size - target_stop_size) > live_size

live_map(open_orders, id) == CHOOSE o \in open_orders : o.order_id = id

live_ids(open_orders) == {o.order_id : o \in open_orders}

RECURSIVE limit_size_sum(_, _)
limit_size_sum(saved, open_orders) ==
    IF saved = <<>> THEN 0
    ELSE (IF Head(saved).type = "limit"
          THEN live_map(open_orders, Head(saved).id).size ELSE 0)
         + limit_size_sum(Tail(saved), open_orders)

\* limit_size_sum that takes the saved size of a limit that is not live.
RECURSIVE saved_or_live_sum(_, _)
saved_or_live_sum(saved, open_orders) ==
    IF saved = <<>> THEN 0
    ELSE (IF Head(saved).type # "limit" THEN 0
          ELSE IF Head(saved).id \in live_ids(open_orders)
          THEN live_map(open_orders, Head(saved).id).size
          ELSE Head(saved).size)
         + saved_or_live_sum(Tail(saved), open_orders)

\* check_integrity that does not return on a saved limit that is not live.
check_integrity_lenient(saved, open_orders, current_pos, equity, config) ==
    LET ids == live_ids(open_orders)
        stops == {i \in 1..Len(saved) : saved[i].type = "stop"}
        target_stop_size ==
            round_qty(current_pos + saved_or_live_sum(saved, open_orders), 1)
    IN  IF saved = <<>> THEN FALSE
        ELSE IF \E i \in stops :
                   \/ saved[i].id \notin ids
                   \/ size_drift(live_map(open_orders, saved[i].id).size,
                                 target_stop_size)
        THEN FALSE
        ELSE stops # {}

\* check_integrity without the guard on an empty saved list and without the
\* final stop_found test.
check_integrity_no_guard(saved, open_orders, current_pos, equity, config) ==
    LET ids == live_ids(open_orders)
        limits == {i \in 1..Len(saved) : saved[i].type = "limit"}
        stops == {i \in 1..Len(saved) : saved[i].type = "stop"}
    IN  IF \E i \in limits : saved[i].id \notin ids THEN FALSE
        ELSE
            LET target_stop_size ==
                    round_qty(current_pos + limit_size_sum(saved, open_orders), 1)
            IN  ~ \E i \in stops :
                       \/ saved[i].id \notin ids
                       \/ size_drift(live_map(open_orders, saved[i].id).size,
                                     target_stop_size)

\* check_integrity without the size comparison of the stop.
check_integrity_no_drift(saved, open_orders, current_pos, equity, config) ==
    LET ids == live_ids(open_orders)
        limits == {i \in 1..Len(saved) : saved[i].type = "limit"}
        stops == {i \in 1..Len(saved) : saved[i].type = "stop"}
    IN  IF saved = <<>> THEN FALSE
        ELSE IF \E i \in limits : saved[i].id \notin ids THEN FALSE
        ELSE IF \E i \in stops : saved[i].id \notin ids THEN FALSE
        ELSE stops # {}

\* check_integrity(name, open_orders, current_pos, min_equity, config) with
\* saved = self.state.get(name, []).  min_equity and config are not read.
check_integrity(saved, open_orders, current_pos, equity, config) ==
    LET ids == live_ids(open_orders)
        limits == {i \in 1..Len(saved) : saved[i].type = "limit"}
        stops == {i \in 1..Len(saved) : saved[i].type = "stop"}
    IN  IF saved = <<>> THEN FALSE
        ELSE IF \E i \in limits : saved[i].id \notin ids THEN FALSE
        ELSE
            LET target_stop_size ==
                    round_qty(current_pos + limit_size_sum(saved, open_orders), 1)
            IN  IF \E i \in stops :
                       \/ saved[i].id \notin ids
                       \/ size_drift(live_map(open_orders, saved[i].id).size,
                                     target_stop_size)
                THEN FALSE
                ELSE stops # {}

----------------------------------------------------------------------------
(* The exchange and the run loop *)

NoCheck == [res |-> "none", pos |-> 0]

NoSizeCheck == [live_size |-> 0, target_stop_size |-> 0, drift |-> "none"]

NoSizing == [long_a |-> 0, short_a |-> 0, long_b |-> 0, short_b |-> 0,
             level |-> 0, qty_a |-> 0, qty_b |-> 0, done |-> FALSE]

NoGrid == [n |-> 0, pos |-> 0, equity |-> 0, rejected |-> {}]

\* An order resting on the account that the bot did not place in this run.
foreign_order(name) ==
    [order_id |-> <<name, 0, 0>>, orderType |-> "lmt",
     side |-> Config(name).side, size |-> qty_step,
     price |-> Config(name).levels[1], reduceOnly |-> FALSE]

\* The resting order the exchange creates for an accepted payload.
resting(order_id, order) ==
    [order_id |-> order_id, orderType |-> order.orderType, side |-> order.side,
     size |-> order.size, price |-> order.price,
     reduceOnly |-> order.reduceOnly]

\* The record place_grid appends for an accepted order.
record(order_id, order) ==
    [id |-> order_id, type |-> order.meta_type, price |-> order.price,
     size |-> order.size]

\* new_state of a send loop that a rejected or failed submission ends.
new_state_abort(name, n, orders, rejected) ==
    LET sent == {k \in 1..Len(orders) : \A j \in 1..k : j \notin rejected}
    IN  [k \in 1..Cardinality(sent) |-> record(<<name, n, k>>, orders[k])]

\* new_state of place_grid: one record per accepted order, in sending order.
RECURSIVE new_state(_, _, _, _)
new_state(name, n, orders, rejected) ==
    IF orders = <<>> THEN <<>>
    ELSE
        LET k == Len(orders)
            front == new_state(name, n, SubSeq(orders, 1, k - 1), rejected)
        IN  IF k \in rejected THEN front
            ELSE Append(front, record(<<name, n, k>>, orders[k]))

\* Order ids.  The exchange gives every accepted order an id no other order
\* has; the program only compares ids for equality.  An id is written
\* <<account, batch, k>>: the k-th order of the account's batch-th
\* submission, batch being the least number that no resting order and no
\* saved record of the account carries.  Batch 0 is an order the bot did
\* not place.
used_batches(name) ==
    {o.order_id[2] : o \in book[name]}
        \cup {state[name][i].id[2] : i \in 1..Len(state[name])}

fresh_batch(name) ==
    CHOOSE n \in 1..(Cardinality(used_batches(name)) + 1) :
        /\ n \notin used_batches(name)
        /\ \A m \in 1..(n - 1) : m \in used_batches(name)

accepted_orders(name, n, orders, rejected) ==
    {resting(<<name, n, k>>, orders[k]) : k \in (1..Len(orders)) \ rejected}

\* The assignment of line 258 done as a replacement of the whole dict.
set_state_only(name, records) ==
    [a \in Accounts |-> IF a = name THEN records ELSE <<>>]

\* place_grid, line 258: self.state[name] = new_state.
set_state(name, records) == [state EXCEPT ![name] = records]

\* __init__: specs fetched or defaulted, every account flushed, a market
\* order sent to close its open position (close_open_position does not look
\* at the response and swallows every error, so a position can outlive it),
\* every account's list emptied and saved.
InitBotWith(books) ==
    /\ state = [a \in Accounts |-> <<>>]
    /\ \E spec \in Specs :
        /\ tick_size = spec.tick_size
        /\ qty_step = spec.qty_step
        /\ min_qty = spec.qty_step
    /\ book \in books
    /\ position \in [Accounts -> PosValues]
    /\ eq_long = 0
    /\ eq_short = 0
    /\ min_equity = 0
    /\ pc = "top"
    /\ cur = 1
    /\ faults = 0
    /\ first_tick = TRUE
    /\ state_file = [a \in Accounts |-> <<>>]
    /\ last_check = [a \in Accounts |-> NoCheck]
    /\ last_grid = [a \in Accounts |-> NoGrid]
    /\ last_tick = [a \in Accounts |-> "none"]
    /\ touched = [a \in Accounts |-> FALSE]

\* The startup force_flush has emptied every book.
InitBot == InitBotWith({[a \in Accounts |-> {}]})

Init ==
    /\ InitBot
    /\ size_check = NoSizeCheck
    /\ sizing = NoSizing

\* get_equity: the margin equity, or 0.0 when the read fails.
get_equity(failed, equity) == IF failed THEN 0 ELSE equity

\* The basis taken from the larger of the two equities.
basis_max(el, es) == Max(el, es)

\* The basis taken from the first account's own equity.
basis_own(el, es) == el

\* run, line 300: min_equity = min(eq_long, eq_short).
basis(el, es) == Min(el, es)

\* run, lines 298-300: both equities are read and the basis is their minimum;
\* equities are the margin equities the exchange can report.
TickStartFrom(equities) ==
    /\ pc = "top"
    /\ \E el \in equities, es \in equities :
       \E fl \in BOOLEAN, fs \in BOOLEAN :
        LET used == faults + (IF fl THEN 1 ELSE 0) + (IF fs THEN 1 ELSE 0)
        IN  /\ used <= MaxFaults
            /\ faults' = used
            /\ eq_long' = get_equity(fl, el)
            /\ eq_short' = get_equity(fs, es)
            /\ min_equity' = basis(eq_long', eq_short')
    /\ pc' = "check"
    /\ cur' = 1
    /\ first_tick' = (first_tick /\ \A a \in Accounts : last_tick[a] = "none")
    /\ last_tick' = [a \in Accounts |-> "pending"]
    /\ UNCHANGED <<state, tick_size, qty_step, min_qty, book, position,
                   state_file, size_check, sizing, last_check, last_grid,
                   touched>>

TickStart == TickStartFrom(EquityValues)

\* The loop moves to the next account, or sleeps until the next tick.
\* Dead locals are cleared: eq_long and eq_short are not read after line 300,
\* min_equity is not read after the last account (lines 298-300 assign all
\* three before any read of the next tick).
EndAccount ==
    IF cur < Len(Names)
    THEN /\ pc' = "check"
         /\ cur' = cur + 1
         /\ eq_long' = 0
         /\ eq_short' = 0
         /\ UNCHANGED min_equity
    ELSE /\ pc' = "top"
         /\ cur' = 1
         /\ eq_long' = 0
         /\ eq_short' = 0
         /\ min_equity' = 0

\* An exception that ends the loop over the accounts: the tick is over.
AbortTick ==
    /\ pc' = "top"
    /\ cur' = 1
    /\ eq_long' = 0
    /\ eq_short' = 0
    /\ min_equity' = 0

\* run, lines 317-318: the except clause inside the loop logs the error, and
\* the loop goes on.
OnError == EndAccount

\* A branch that takes every account for rebuilding.
rebuild_always(ok) == FALSE

\* run, line 310: the account is left alone when check_integrity returns
\* True, and rebuilt otherwise.
left_alone(ok) == ok

\* run, lines 305-313 and 317-318 for the current account: the reads, the
\* integrity check and the branch on its result.
Check ==
    /\ pc = "check"
    /\ LET name == Names[cur] IN
        \/ \* get_open_orders raises: the except clause logs, next account
           /\ faults < MaxFaults
           /\ faults' = faults + 1
           /\ last_tick' = [last_tick EXCEPT ![name] = "error"]
           /\ OnError
           /\ UNCHANGED <<last_check, touched>>
        \/ \E failed \in BOOLEAN :
           \* get_position returns 0.0 when its read fails
           /\ failed => (faults < MaxFaults /\ position[name] # 0)
           /\ faults' = IF failed THEN faults + 1 ELSE faults
           /\ LET p == IF failed THEN 0 ELSE position[name]
                  ok == check_integrity(state[name], book[name], p,
                                        min_equity, Config(name))
              IN  /\ last_check' = [last_check EXCEPT ![name] =
                         [res |-> IF ok THEN "valid" ELSE "invalid",
                          pos |-> p]]
                  /\ IF left_alone(ok)
                     THEN /\ last_tick' = [last_tick EXCEPT ![name] = "ok"]
                          /\ EndAccount
                     ELSE /\ last_tick' = [last_tick EXCEPT ![name] = "invalid"]
                          /\ pc' = "rebuild"
                          /\ eq_long' = 0
                          /\ eq_short' = 0
                          /\ UNCHANGED <<cur, min_equity>>
                  /\ touched' = [touched EXCEPT ![name] = FALSE]
    /\ UNCHANGED <<state, tick_size, qty_step, min_qty, book, position,
                   first_tick, state_file, size_check, sizing, last_grid>>

\* The position after a rebuild that closes it at market, as startup does.
closed_position(pos) == 0

\* The position after force_flush and place_grid: they send cancel requests
\* and "lmt" and "stp" orders, which rest; close_open_position, which sends
\* the "mkt" order, is called by __init__ only (line 72).
rebuilt_position(pos) == pos

\* The book after a rebuild that does not cancel.
no_flush(open_orders, survivors) == open_orders

\* The book after force_flush: the bulk cancel and the sniper pass remove
\* every order but those whose cancels failed (every error is logged and
\* swallowed, lines 169-170 and 187-195).
force_flush(open_orders, survivors) == open_orders \cap survivors

\* The subsets of S with at most k elements.
AtMost(S, k) == {T \in SUBSET S : Cardinality(T) <= k}

Cost(b) == IF b THEN 1 ELSE 0

\* run, lines 314-315 for the current account: force_flush, then place_grid.
\* survivors are the resting orders neither the bulk cancel nor the sniper
\* pass removed; rejected are the positions in orders_to_send of the orders
\* the exchange did not accept (or whose send raised).
Rebuild ==
    /\ pc = "rebuild"
    /\ LET name == Names[cur] IN
       \E survivors \in AtMost(book[name], MaxFaults - faults) :
        /\ \/ \* place_grid returns at once: base_equity <= 0
              /\ min_equity <= 0
              /\ book' = [book EXCEPT ![name] =
                              force_flush(book[name], survivors)]
              /\ faults' = faults + Cardinality(survivors)
              /\ UNCHANGED <<state, state_file, last_grid>>
           \/ /\ min_equity > 0
              /\ \E failed \in BOOLEAN, saved_ok \in BOOLEAN :
                 LET used == faults + Cardinality(survivors) + Cost(failed)
                             + Cost(~saved_ok)
                 IN  /\ used <= MaxFaults
                     \* get_position returns 0.0 when its read fails
                     /\ failed => position[name] # 0
                     /\ LET current_pos == IF failed THEN 0 ELSE position[name]
                            orders == orders_to_send(Config(name), min_equity,
                                                     current_pos)
                            n == fresh_batch(name)
                        IN  \E rejected \in AtMost(1..Len(orders),
                                                   MaxFaults - used) :
                             /\ faults' = used + Cardinality(rejected)
                             /\ state' = set_state(name,
                                    new_state(name, n, orders, rejected))
                             /\ book' = [book EXCEPT ![name] =
                                    force_flush(book[name], survivors) \cup
                                    accepted_orders(name, n, orders, rejected)]
                             /\ last_grid' = [last_grid EXCEPT ![name] =
                                    [n |-> n, pos |-> current_pos,
                                     equity |-> min_equity,
                                     rejected |-> rejected]]
                     \* save_state: a failed write is swallowed
                     /\ state_file' = IF saved_ok THEN state' ELSE state_file
        /\ last_tick' = [last_tick EXCEPT ![name] = "rebuilt"]
    /\ position' = [position EXCEPT
                        ![Names[cur]] = rebuilt_position(position[Names[cur]])]
    /\ EndAccount
    /\ UNCHANGED <<tick_size, qty_step, min_qty, first_tick, size_check,
                   sizing,
                   last_check, touched>>

----------------------------------------------------------------------------
(* What happens on the exchange outside the bot *)

\* Every outside change counts against MaxFaults and leaves the bot alone.
Outside(name) ==
    /\ faults < MaxFaults
    /\ faults' = faults + 1
    /\ touched' = [touched EXCEPT ![name] = TRUE]
    /\ UNCHANGED <<state, tick_size, qty_step, min_qty, eq_long, eq_short,
                   min_equity, pc, cur, first_tick, state_file, size_check,
                   sizing,
                   last_check, last_grid, last_tick>>

\* A resting order fills or is cancelled from outside.
EnvGone ==
    \E name \in Accounts : \E o \in book[name] :
        /\ Outside(name)
        /\ book' = [book EXCEPT ![name] = @ \ {o}]
        /\ UNCHANGED position

\* The resting size of an order is edited from outside, by one quantity step.
EnvResize ==
    \E name \in Accounts : \E o \in book[name] :
        /\ Outside(name)
        /\ book' = [book EXCEPT ![name] =
                       (@ \ {o}) \cup {[o EXCEPT !.size = @ + qty_step]}]
        /\ UNCHANGED position

\* The price of a resting order is edited from outside, by 500 dollars.
EnvReprice ==
    \E name \in Accounts : \E o \in book[name] :
        /\ Outside(name)
        /\ book' = [book EXCEPT ![name] =
                       (@ \ {o}) \cup {[o EXCEPT !.price = @ - 500]}]
        /\ UNCHANGED position

\* An order the bot did not place rests on the account.
EnvForeign ==
    \E name \in Accounts :
        /\ foreign_order(name) \notin book[name]
        /\ Outside(name)
        /\ book' = [book EXCEPT ![name] = @ \cup {foreign_order(name)}]
        /\ UNCHANGED position

\* The open position changes.
EnvPosition ==
    \E name \in Accounts : \E size \in PosValues \ {position[name]} :
        /\ Outside(name)
        /\ position' = [position EXCEPT ![name] = size]
        /\ UNCHANGED book

Next ==
    \/ TickStart
    \/ Check
    \/ Rebuild
    \/ EnvGone
    \/ EnvResize
    \/ EnvReprice
    \/ EnvForeign
    \/ EnvPosition

Spec == Init /\ [][Next]_vars

----------------------------------------------------------------------------
(* The bot on accounts whose margin equity can also be reported as 0 *)

TickStartZero == TickStartFrom(EquityValues \cup {0})

NextZero ==
    \/ TickStartZero
    \/ Check
    \/ Rebuild
    \/ EnvGone
    \/ EnvResize
    \/ EnvReprice
    \/ EnvForeign
    \/ EnvPosition

SpecZero == Init /\ [][NextZero]_vars

----------------------------------------------------------------------------
(* The bot started on accounts where the startup force_flush, whose cancels
   failed, has left an order resting *)

InitStuck ==
    /\ InitBotWith({[a \in Accounts |-> {foreign_order(a)}]})
    /\ size_check = NoSizeCheck
    /\ sizing = NoSizing

SpecStuck == InitStuck /\ [][Next]_vars

----------------------------------------------------------------------------
(* The size comparison of check_integrity on its own *)

\* Sizes, in quantity units, on which the program's floating-point
\* comparison gives the result of the exact one.
TolLive == {60, 10000}

TolTarget == (50..70) \cup (9495..10499)

InitTol ==
    /\ InitBot
    /\ sizing = NoSizing
    /\ \E l \in TolLive, t \in TolTarget :
        size_check = [live_size |-> l, target_stop_size |-> t,
                      drift |-> "none"]

\* Lines 285-287: the comparison, and the branch on it.
SizeCheck ==
    /\ size_check.drift = "none"
    /\ size_check' = [size_check EXCEPT !.drift =
           IF size_drift(size_check.live_size, size_check.target_stop_size)
           THEN "yes" ELSE "no"]
    /\ UNCHANGED <<state, tick_size, qty_step, min_qty, book, position,
                   eq_long, eq_short, min_equity, pc, cur, faults,
                   first_tick, state_file, sizing, last_check, last_grid,
                   last_tick, touched>>

NextTol == SizeCheck

SpecTol == InitTol /\ [][NextTol]_vars

----------------------------------------------------------------------------
(* The sizing of one rung on its own *)

\* Margin equities in dollars: none, and values about the rounding ties of
\* the quantity at the grid's prices.
SizingEquities == {0, 7950, 8010, 8040, 8070, 10000}

\* The levels of both accounts.
SizingLevels ==
    UNION {{Config(a).levels[i] : i \in 1..Len(Config(a).levels)} :
           a \in Accounts}

InitSizing ==
    /\ InitBot
    /\ size_check = NoSizeCheck
    /\ \E la \in SizingEquities, sa \in SizingEquities,
          lb \in SizingEquities, sb \in SizingEquities,
          level \in SizingLevels :
        sizing = [long_a |-> la, short_a |-> sa, long_b |-> lb,
                  short_b |-> sb, level |-> level, qty_a |-> 0, qty_b |-> 0,
                  done |-> FALSE]

\* Lines 300 and 211-212: the basis of each pair of equities, and the
\* quantity of the rung at the rounded level from each basis.
Sizing ==
    /\ ~sizing.done
    /\ sizing' = [sizing EXCEPT
           !.qty_a = ideal_qty(basis(sizing.long_a, sizing.short_a),
                               round_price(sizing.level)),
           !.qty_b = ideal_qty(basis(sizing.long_b, sizing.short_b),
                               round_price(sizing.level)),
           !.done = TRUE]
    /\ UNCHANGED <<state, tick_size, qty_step, min_qty, book, position,
                   eq_long, eq_short, min_equity, pc, cur, faults,
                   first_tick, state_file, size_check, last_check, last_grid,
                   last_tick, touched>>

NextSizing == Sizing

SpecSizing == InitSizing /\ [][NextSizing]_vars

----------------------------------------------------------------------------
(* Properties *)

\* A step of Check in which check_integrity is called for the account: its
\* arguments are state[name], book[name] and the position that get_position
\* returned, which the step leaves in last_check'[name].pos.
CheckStep(name) ==
    /\ pc = "check"
    /\ Names[cur] = name
    /\ last_tick'[name] \in {"ok", "invalid"}

\* A step of Rebuild in which place_grid gets past its guard on base_equity.
PlaceStep(name) ==
    /\ pc = "rebuild"
    /\ Names[cur] = name
    /\ last_tick'[name] = "rebuilt"
    /\ min_equity > 0

\* orders_to_send of the account's latest place_grid call.
last_orders(name) ==
    orders_to_send(Config(name), last_grid[name].equity, last_grid[name].pos)

\* The latest place_grid call of the account had every order accepted, and
\* the live order book holds exactly those orders, prices and sizes included.
FreshGrid(name) ==
    /\ last_grid[name].n > 0
    /\ last_grid[name].rejected = {}
    /\ book[name] = accepted_orders(name, last_grid[name].n,
                                    last_orders(name), {})

Valid(name) == last_check'[name].res = "valid"

Invalid(name) == last_check'[name].res = "invalid"

RECURSIVE SumSizes(_)
SumSizes(S) ==
    IF S = {} THEN 0
    ELSE LET o == CHOOSE x \in S : TRUE IN o.size + SumSizes(S \ {o})

\* The limit orders resting on the account, whoever placed them.
resting_limits(name) == {o \in book[name] : o.orderType = "lmt"}

\* The saved records of the account whose order is live.
live_records(name) ==
    {i \in 1..Len(state[name]) : state[name][i].id \in live_ids(book[name])}

\* C1 -- Round trip.  For either account: when the latest rebuild had every
\* order accepted, the live order book holds exactly those orders at their
\* submitted prices and sizes, and check_integrity is called with the
\* position place_grid read, check_integrity returns valid; for every
\* position and every basis equity the model reaches.
C1_RoundTrip ==
    [][\A name \in Accounts :
          (/\ CheckStep(name)
           /\ FreshGrid(name)
           /\ last_check'[name].pos = last_grid[name].pos)
          => Valid(name)]_vars

\* A grid built around an open position, every order accepted, found healthy
\* by the next check.
C1_Witness ==
    \E name \in Accounts :
        /\ last_tick[name] = "ok"
        /\ FreshGrid(name)
        /\ last_grid[name].pos > 0
        /\ last_check[name] = [res |-> "valid", pos |-> last_grid[name].pos]
        /\ position[name] = last_grid[name].pos

\* C2 -- Stability of Healthy.  Once check_integrity has returned valid for
\* an account, its next call for that account returns valid as well, and the
\* tick does not go on to force_flush and place_grid, provided that since the
\* earlier call nothing changed the account's order book or position from
\* outside and the position read returns the same value; whatever the basis
\* equity of either tick is and whatever happens to the other account.
C2_HealthyIsStable ==
    [][\A name \in Accounts :
          (/\ CheckStep(name)
           /\ last_check[name].res = "valid"
           /\ ~ touched[name]
           /\ last_check'[name].pos = last_check[name].pos)
          => (Valid(name) /\ pc' # "rebuild" /\ last_tick'[name] = "ok")]_vars

\* A tick is about to check an account, holding a position, that the
\* previous check found healthy and that nothing has touched since.
C2_Witness ==
    /\ pc = "check"
    /\ Names[cur] = "LONG"
    /\ last_tick["LONG"] = "pending"
    /\ last_check["LONG"] = [res |-> "valid", pos |-> 108]
    /\ position["LONG"] = 108
    /\ ~ touched["LONG"]
    /\ state["LONG"] # <<>>
    /\ faults = 0

\* C3 -- Equity re-sizing trigger.  check_integrity returns invalid whenever
\* some saved limit record is live with a size that deviates from the ideal
\* size for the record's price at the current basis equity by more than 5% of
\* the live size.
C3_ResizeTrigger ==
    [][\A name \in Accounts :
          (/\ CheckStep(name)
           /\ min_equity > 0
           /\ \E i \in live_records(name) :
                 /\ state[name][i].type = "limit"
                 /\ size_drift(live_map(book[name], state[name][i].id).size,
                               ideal_qty(min_equity, state[name][i].price)))
          => Invalid(name)]_vars

\* C4 -- Missing order detection.  check_integrity returns invalid whenever
\* some saved record of the account, limit or stop, has an id that no live
\* order carries; whatever the other orders, the position and the equity are.
C4_MissingOrder ==
    [][\A name \in Accounts :
          (/\ CheckStep(name)
           /\ \E i \in 1..Len(state[name]) :
                 state[name][i].id \notin live_ids(book[name]))
          => (Invalid(name) /\ pc' = "rebuild")]_vars

\* A saved limit order is gone from the live order book, every other saved
\* order is live, and the check has sent the account to its rebuild.
C4_Witness ==
    \E name \in Accounts :
        /\ pc = "rebuild"
        /\ Names[cur] = name
        /\ last_check[name].res = "invalid"
        /\ Cardinality((1..Len(state[name])) \ live_records(name)) = 1
        /\ \E i \in 1..Len(state[name]) :
              /\ state[name][i].type = "limit"
              /\ i \notin live_records(name)

\* C5 -- Exact price match.  check_integrity returns invalid whenever some
\* saved record is live at a price that differs from the price in the record.
C5_ExactPrice ==
    [][\A name \in Accounts :
          (/\ CheckStep(name)
           /\ \E i \in live_records(name) :
                 live_map(book[name], state[name][i].id).price
                     # state[name][i].price)
          => Invalid(name)]_vars

\* C6 (as amended) -- No saved state forces a build.  check_integrity
\* returns invalid whenever the account's saved list is empty, whatever the
\* live order book, the position and the equity are, and the tick goes on to
\* force_flush and place_grid.  Startup empties every list, so in the first
\* tick every call of check_integrity returns invalid, and when the first
\* tick is over every account whose open orders could be read has been
\* through force_flush and place_grid.
C6_EmptyForcesBuild ==
    /\ [][\A name \in Accounts :
             (CheckStep(name) /\ (state[name] = <<>> \/ first_tick))
             => (Invalid(name) /\ pc' = "rebuild")]_vars
    /\ [](\A name \in Accounts :
             (first_tick /\ pc = "top" /\ last_tick[name] # "none")
             => last_tick[name] \in {"rebuilt", "error"})

\* The first tick is over: it found every account invalid and has built
\* and saved a grid on each.
C6_Witness ==
    /\ first_tick
    /\ pc = "top"
    /\ \A name \in Accounts :
          /\ last_tick[name] = "rebuilt"
          /\ last_check[name].res = "invalid"
          /\ state[name] # <<>>

\* C6 (original) -- when the first tick after startup is over, both accounts
\* have been rebuilt.
C6_FirstTickRebuildsBoth ==
    (first_tick /\ pc = "top" /\ \E name \in Accounts : last_tick[name] # "none")
    => \A name \in Accounts : last_tick[name] = "rebuilt"

\* C7 (as amended) -- Stop cover of a Healthy grid.  Whenever
\* check_integrity returns valid, the saved list has a stop record, and every
\* saved stop record is live with a size that differs from
\* round_qty(sum of the live sizes of the saved limit orders + position) by
\* at most 5% of the live stop size.
C7_StopWithinTolerance ==
    [][\A name \in Accounts :
          (CheckStep(name) /\ Valid(name))
          => LET saved == state[name]
                 stops == {i \in 1..Len(saved) : saved[i].type = "stop"}
                 target == round_qty(last_check'[name].pos
                               + limit_size_sum(saved, book[name]), 1)
             IN  /\ stops # {}
                 /\ \A i \in stops :
                       /\ i \in live_records(name)
                       /\ 20 * Abs(live_map(book[name], saved[i].id).size
                                   - target)
                              <= live_map(book[name], saved[i].id).size]_vars

\* A grid found healthy although the live stop is not the size of the
\* position plus the limit orders resting on the account.
C7_Witness ==
    \E name \in Accounts :
        /\ last_tick[name] = "ok"
        /\ last_check[name].res = "valid"
        /\ ~ touched[name]
        /\ \E o \in book[name] :
              /\ o.orderType = "stp"
              /\ o.size # round_qty(last_check[name].pos
                              + SumSizes(resting_limits(name)), 1)

\* C7 (original) -- whenever check_integrity returns valid, the live stop
\* order's size equals round_qty(sum of the sizes of all limit orders resting
\* on the account + position).
C7_StopEqualsExposure ==
    [][\A name \in Accounts :
          (CheckStep(name) /\ Valid(name))
          => \E o \in book[name] :
                /\ o.orderType = "stp"
                /\ o.size = round_qty(last_check'[name].pos
                                + SumSizes(resting_limits(name)), 1)]_vars

C9_OneStop ==
    \A name \in Accounts :
        last_grid[name].n > 0 =>
            \A orders \in {last_orders(name)} :
            LET stops == {k \in 1..Len(orders) : orders[k].meta_type = "stop"}
                limits == {orders[k] : k \in (1..Len(orders)) \ stops}
            IN  /\ Cardinality(stops) = 1
                /\ \A k \in stops :
                      /\ orders[k].orderType = "stp"
                      /\ orders[k].side = Config(name).stop_side
                      /\ orders[k].price = round_price(Config(name).stop)
                      /\ orders[k].reduceOnly = TRUE
                      /\ orders[k].size =
                            round_qty(last_grid[name].pos + SumSizes(limits), 1)
                /\ \A o \in limits :
                      o.orderType = "lmt" /\ o.meta_type = "limit"

\* An account has just been rebuilt around an open position: its book holds
\* the one stop, reduce-only, sized to the position plus the limits beside it.
C9_Witness ==
    \E name \in Accounts :
        /\ last_tick[name] = "rebuilt"
        /\ last_grid[name].n > 0
        /\ last_grid[name].pos > 0
        /\ Cardinality(book[name] \ resting_limits(name)) = 1
        /\ resting_limits(name) # {}
        /\ \E o \in book[name] :
              /\ o.orderType = "stp"
              /\ o.reduceOnly
              /\ o.side = Config(name).stop_side
              /\ o.size = round_qty(last_grid[name].pos
                              + SumSizes(resting_limits(name)), 1)

\* C10 -- Sizing basis.  The basis of a tick is min(equity LONG, equity
\* SHORT), computed once when the tick starts and the same for every account
\* reconciled in the tick; every limit order place_grid builds has the size
\* round_qty((basis / 10) / rounded price), which is at least min_qty, and
\* the accepted ones rest on the book at that size.
C10_SizingBasis ==
    [][/\ (pc = "top" /\ pc' # "top")
          => min_equity' = Min(eq_long', eq_short')
       /\ (pc # "top" /\ pc' # "top") => min_equity' = min_equity
       /\ \A name \in Accounts :
             PlaceStep(name) =>
                /\ last_grid'[name].equity = min_equity
                /\ \A o \in book'[name] \ book[name] :
                      o.orderType = "lmt" =>
                         /\ o.price \in {round_price(Config(name).levels[i]) :
                                            i \in 1..Len(Config(name).levels)}
                         /\ o.size = Max(Round(min_equity * UnitsPerContract,
                                               10 * o.price * qty_step)
                                         * qty_step, min_qty)]_vars

\* LONG has just been rebuilt in a tick whose basis is 8,000: at quantity
\* step 0.0001 its rung at 60,000 rests with size 0.0133, and SHORT is about
\* to be reconciled on the same basis.
C10_Witness ==
    /\ pc = "check"
    /\ Names[cur] = "SHORT"
    /\ last_tick["LONG"] = "rebuilt"
    /\ min_equity = 8000
    /\ last_grid["LONG"].equity = 8000
    /\ qty_step = 1
    /\ \E o \in book["LONG"] :
          o.orderType = "lmt" /\ o.price = 60000 /\ o.size = 133

\* A step of Rebuild for the account: force_flush, then place_grid.
RebuildStep(name) ==
    /\ pc = "rebuild"
    /\ Names[cur] = name
    /\ last_tick'[name] = "rebuilt"

\* C11 -- Wholesale replacement of the saved record.  After every rebuild of
\* an account, at any basis equity, 0 included, the account's saved list
\* holds exactly one record for each order accepted during the rebuild, with
\* the order's id, price and size, and no record carries the id of an order
\* the rebuild cancelled.
C11_WholesaleReplacement ==
    [][\A name \in Accounts :
          RebuildStep(name) =>
             LET accepted == book'[name] \ book[name]
                 cancelled == book[name] \ book'[name]
                 saved == state'[name]
             IN  /\ {saved[i].id : i \in 1..Len(saved)}
                        = {o.order_id : o \in accepted}
                 /\ Len(saved) = Cardinality(accepted)
                 /\ \A i \in 1..Len(saved) : \A o \in accepted :
                       saved[i].id = o.order_id
                       => (saved[i].price = o.price /\ saved[i].size = o.size)
                 /\ \A i \in 1..Len(saved) : \A o \in cancelled :
                       saved[i].id # o.order_id]_vars

\* C12 -- Fetch failure skips the tick.  When the equity read of the tick
\* failed (the basis is 0: the exchange reports no equity of 0 here), or the
\* open-orders read or the position read for the account fails (the step
\* counts a fault), the account's tick is abandoned: it does not go on to
\* force_flush and place_grid, and the saved list stays as it is.
C12_FetchFailureSkips ==
    [][\A name \in Accounts :
          (/\ pc = "check"
           /\ Names[cur] = name
           /\ last_tick'[name] # last_tick[name]
           /\ (min_equity = 0 \/ faults' > faults))
          => (pc' # "rebuild" /\ state'[name] = state[name])]_vars

\* C13 -- Rejected submissions are skipped without aborting the batch.  In
\* every place_grid call each target order the exchange does not reject comes
\* to rest, whatever happened to the orders sent before it, and the new saved
\* list holds one record {id, type, price, size} for each accepted order and
\* no record for a rejected or failed one.
C13_RejectedAreSkipped ==
    [][\A name \in Accounts :
          PlaceStep(name) =>
             \A orders \in {orders_to_send(Config(name),
                                            last_grid'[name].equity,
                                            last_grid'[name].pos)} :
             LET g == last_grid'[name]
                 sent_ok == (1..Len(orders)) \ g.rejected
                 placed == book'[name] \ book[name]
                 saved == state'[name]
             IN  /\ Len(saved) = Cardinality(sent_ok)
                 /\ Cardinality(placed) = Cardinality(sent_ok)
                 /\ \A k \in sent_ok : \E o \in placed :
                       /\ o.orderType = orders[k].orderType
                       /\ o.price = orders[k].price
                       /\ o.size = orders[k].size
                       /\ \E i \in 1..Len(saved) :
                             saved[i] = [id |-> o.order_id,
                                         type |-> orders[k].meta_type,
                                         price |-> orders[k].price,
                                         size |-> orders[k].size]
                 /\ \A i \in 1..Len(saved) :
                       saved[i].id \in {o.order_id : o \in placed}]_vars

\* The first order of a grid was rejected: the orders sent after it rest on
\* the book and are the saved records.
C13_Witness ==
    \E name \in Accounts :
        /\ last_tick[name] = "rebuilt"
        /\ last_grid[name].n > 0
        /\ last_grid[name].rejected = {1}
        /\ Len(state[name]) = Len(last_orders(name)) - 1
        /\ Len(state[name]) >= 4
        /\ {state[name][i].id : i \in 1..Len(state[name])}
               = {o.order_id : o \in book[name]}

\* C14 -- Account isolation.  An error raised while an account is reconciled
\* leaves the loop on its way to the next account, so that when the tick is
\* over no account is left unvisited; and no step taken for one account
\* changes the saved list of another.
C14_AccountIsolation ==
    /\ [][\A name \in Accounts :
             (pc \in {"check", "rebuild"} /\ Names[cur] = name)
             => /\ \A other \in Accounts \ {name} :
                      state'[other] = state[other]
                /\ (last_tick'[name] = "error" /\ cur < Len(Names))
                   => (pc' = "check" /\ cur' = cur + 1)]_vars
    /\ [](pc = "top" => \A name \in Accounts : last_tick[name] # "pending")

\* A tick in which the open orders of LONG could not be read has gone on to
\* build the grid of SHORT, and left the saved list of LONG as it was.
C14_Witness ==
    /\ pc = "top"
    /\ last_tick["LONG"] = "error"
    /\ last_tick["SHORT"] = "rebuilt"
    /\ state["LONG"] = <<>>
    /\ state["SHORT"] # <<>>

\* A step of the bot (of run), as opposed to a change made on the exchange
\* from outside.
BotStep == pc' # pc \/ last_tick' # last_tick

\* C15 -- Position close only at cold start.  Once the tick loop has started
\* no step of the bot changes a position: every order a tick submits is an
\* "lmt" or an "stp" order, never an "mkt" order, whether the account is
\* found healthy or is rebuilt.
C15_NoCloseInTicks ==
    [][BotStep =>
          /\ position' = position
          /\ \A name \in Accounts :
                /\ \A o \in book'[name] \ book[name] :
                      o.orderType \in {"lmt", "stp"}
                /\ PlaceStep(name) =>
                      LET orders == orders_to_send(Config(name),
                                        last_grid'[name].equity,
                                        last_grid'[name].pos)
                      IN  \A k \in 1..Len(orders) :
                             orders[k].orderType \in {"lmt", "stp"}]_vars

\* After the first tick an account holding a position has been rebuilt
\* around it, and the position is still there.
C15_Witness ==
    \E name \in Accounts :
        /\ ~ first_tick
        /\ last_tick[name] = "rebuilt"
        /\ last_grid[name].n > 0
        /\ last_grid[name].pos = 108
        /\ position[name] = 108

nearest(name, i) ==
    LET levels == {Config(name).levels[j] : j \in 1..Len(Config(name).levels)}
    IN  CHOOSE x \in levels :
           IF Config(name).side = "buy"
           THEN Cardinality({y \in levels : y > x}) = i - 1
           ELSE Cardinality({y \in levels : y < x}) = i - 1

\* The rungs of each account from the market outwards.
walk ==
    [name \in Accounts |->
        [i \in 1..Len(Config(name).levels) |-> nearest(name, i)]]

\* The limit orders the rule emits from the i-th rung on, appended to those
\* emitted before it, the covered counter standing at counter when the walk
\* comes to the i-th rung, for the basis equity base_equity.
RECURSIVE netted(_, _, _, _, _)
netted(name, base_equity, i, counter, limits) ==
    IF i > Len(walk[name]) THEN limits
    ELSE LET qty == ideal_qty(base_equity, round_price(walk[name][i]))
         IN  IF 10 * counter < 9 * qty
             THEN netted(name, base_equity, i + 1, counter,
                         Append(limits,
                                [side |-> Config(name).side,
                                 price |-> round_price(walk[name][i]),
                                 size |-> qty]))
             ELSE netted(name, base_equity, i + 1, counter - qty, limits)

\* The limit orders among the orders of a place_grid call, in building order.
built_limits(orders) ==
    [k \in 1..(Len(orders) - 1) |->
        [side |-> orders[k].side, price |-> orders[k].price,
         size |-> orders[k].size]]

\* C17 -- Position netting rule.  place_grid walks the rungs from the market
\* outwards (descending price for the buy account, ascending for the sell
\* account) with a covered counter that starts at the position read; a rung
\* emits a limit order of its ideal size exactly when the counter is below
\* 90% of that size, and otherwise emits nothing and takes its ideal size
\* off the counter.  The limit orders of every place_grid call are those of
\* this walk, in its order, and they are the limit orders that come to rest
\* when none is rejected.
C17_NettingRule ==
    [][\A name \in Accounts :
          PlaceStep(name) =>
             \A orders \in {orders_to_send(Config(name),
                                            last_grid'[name].equity,
                                            last_grid'[name].pos)} :
             \A rule \in {netted(name, min_equity, 1,
                                 last_grid'[name].pos, <<>>)} :
                /\ built_limits(orders) = rule
                /\ \A k \in 1..(Len(orders) - 1) :
                      orders[k].meta_type = "limit"
                /\ last_grid'[name].rejected = {} =>
                      {[side |-> o.side, price |-> o.price, size |-> o.size] :
                          o \in {x \in book'[name] \ book[name] :
                                    x.orderType = "lmt"}}
                        = {rule[k] : k \in 1..Len(rule)}]_vars

\* A grid built around a position that covers 90% of one rung and not of
\* the next: one rung emits nothing, the others rest on the book.
C17_Witness ==
    \E name \in Accounts :
        /\ last_tick[name] = "rebuilt"
        /\ last_grid[name].n > 0
        /\ last_grid[name].rejected = {}
        /\ last_grid[name].pos = 108
        /\ Len(built_limits(last_orders(name))) = 4
        /\ Cardinality(resting_limits(name)) = 4

\* C18 -- Sizing monotonicity.  For a fixed rung price and instrument spec,
\* the order quantity round_qty((min(E1, E2) / 10) / price) does not
\* decrease when min(E1, E2) grows: of two pairs of equities, the pair with
\* the smaller minimum never gets the larger quantity.
C18_SizingMonotone ==
    sizing.done =>
        LET min_a == IF sizing.long_a <= sizing.short_a
                     THEN sizing.long_a ELSE sizing.short_a
            min_b == IF sizing.long_b <= sizing.short_b
                     THEN sizing.long_b ELSE sizing.short_b
        IN  min_a <= min_b => sizing.qty_a <= sizing.qty_b

\* Two pairs whose minima 8010 and 8070 both come to 0.0134 at 60000 with
\* a quantity step of 0.0001, the first by a tie rounded up to the even
\* step and the second by a tie rounded down to it.
C18_Witness ==
    /\ sizing.done
    /\ qty_step = 1
    /\ sizing.level = 60000
    /\ sizing.long_a = 8010 /\ sizing.short_a = 10000
    /\ sizing.long_b = 8070 /\ sizing.short_b = 8070
    /\ sizing.qty_a = 134
    /\ sizing.qty_b = 134

\* The i-th rung from the market has a limit order in the latest place_grid
\* call of the account.
emitted(name, i) ==
    \E orders \in {last_orders(name)} :
        \E k \in 1..(Len(orders) - 1) :
            orders[k].price = round_price(walk[name][i])

\* C19 -- Skipped rungs form a prefix.  For both accounts and every position
\* and basis equity, the rungs for which place_grid emits no limit order are
\* the first k rungs in closest-to-market order: no rung is skipped after a
\* rung nearer to the market has been emitted.
C19_SkippedPrefix ==
    \A name \in Accounts :
        last_grid[name].n > 0 =>
            \A i, j \in 1..Len(Config(name).levels) :
                (i < j /\ emitted(name, i)) => emitted(name, j)

\* C20 -- A Healthy tick has no effect.  When check_integrity returns valid
\* for an account, the tick goes on to the next account without a rebuild,
\* so no cancel and no submit is issued for it, and the saved record lists
\* in memory and in the state file stay as they were; no check_integrity
\* call changes the saved state or the book.  Cancels, submits and writes
\* of an account's saved list happen only in its rebuild, which an invalid
\* result of the same tick has started; the state file is written only by
\* a rebuild, which saves the lists of all accounts as they are in memory.
C20_HealthyTickNoEffect ==
    [][\A name \in Accounts :
          /\ CheckStep(name) =>
                /\ state' = state
                /\ state_file' = state_file
                /\ book' = book
          /\ (CheckStep(name) /\ Valid(name)) =>
                /\ pc' # "rebuild"
                /\ last_tick'[name] = "ok"
          /\ (pc = "rebuild" /\ Names[cur] = name) =>
                /\ last_check[name].res = "invalid"
                /\ last_tick[name] = "invalid"
          /\ state'[name] # state[name] =>
                (pc = "rebuild" /\ Names[cur] = name)
          /\ state_file'[name] # state_file[name] =>
                (pc = "rebuild" /\ state_file'[name] = state'[name])]_vars

\* Both accounts have been found healthy in a tick: their saved lists, the
\* state file and their books are those the rebuilds of an earlier tick
\* left.
C20_Witness ==
    /\ pc = "top"
    /\ \A name \in Accounts :
          /\ last_tick[name] = "ok"
          /\ last_check[name].res = "valid"
          /\ ~touched[name]
          /\ Len(state[name]) >= 5
          /\ state_file[name] = state[name]
          /\ live_ids(book[name]) =
                {state[name][k].id : k \in 1..Len(state[name])}

====
